---- MODULE Spec2Model ----
(***************************************************************************)
(* Model of SchemaBuilder (src/src/index.ts) together with the example     *)
(* entity classes of src/examples/index.ts.                                 *)
(*                                                                         *)
(* A JavaScript string is a sequence of lexemes (field names, " ", "{",    *)
(* "}", ", ", ...); string concatenation is \o and the empty string is     *)
(* << >>.  A Set is a duplicate-free sequence in insertion order, a Map a  *)
(* sequence of <<key, value>> pairs in insertion order of the keys.        *)
(***************************************************************************)
EXTENDS Integers, Sequences, FiniteSets, TLC

VARIABLES nodes, last

vars == <<nodes, last>>

\* ------------------------------------------------------------------ bounds
\* longest argument list given to add / set / the constructor's initFields
MaxFields == 2

\* --------------------------------------------------------- JS value helpers
Null == "<null>"
Undefined == "<undefined>"
\* an absent object reference (null / undefined), and no object at all
NullNode == [absent |-> "null"]

UndefinedNode == [absent |-> "undefined"]

NoNode == [absent |-> "none"]

isAbsent(o) == "absent" \in DOMAIN o

\* the outcome of a call that threw: the message, and `this` as the call left it
Throw(msg, this) == [thrown |-> msg, this |-> this]

isThrown(r) == "thrown" \in DOMAIN r

\* `x + ''` for a name: null prints as "null", '' contributes nothing
toStr(v) ==
    IF v = "" THEN << >>
    ELSE IF v = Null THEN <<"null">>
    ELSE IF v = Undefined THEN <<"undefined">>
    ELSE <<v>>

\* truthiness of a name (string | null | undefined)
truthy(v) == v # "" /\ v # Null /\ v # Undefined

Range(s) == {s[i] : i \in 1..Len(s)}

\* Set.prototype.has / add / delete on an insertion-ordered set
setHas(s, e) == e \in Range(s)

setAdd(s, e) == IF setHas(s, e) THEN s ELSE Append(s, e)

setDelete(s, e) == SelectSeq(s, LAMBDA x : x # e)

RECURSIVE setFrom(_)
\* new Set(array): first occurrence of every element, in order
setFrom(a) ==
    IF a = << >> THEN << >>
    ELSE setAdd(setFrom(SubSeq(a, 1, Len(a) - 1)), a[Len(a)])

\* a key that is set again moves to the end
mapSetMoveToEnd(m, k, v) == Append(SelectSeq(m, LAMBDA p : p[1] # k), <<k, v>>)

\* Map.prototype.has / get / set / delete / values on an insertion-ordered map
mapKeys(m) == [i \in 1..Len(m) |-> m[i][1]]

mapHas(m, k) == \E i \in 1..Len(m) : m[i][1] = k

mapGet(m, k) == (m[CHOOSE i \in 1..Len(m) : m[i][1] = k])[2]

mapSet(m, k, v) ==
    IF mapHas(m, k)
    THEN [i \in 1..Len(m) |-> IF m[i][1] = k THEN <<k, v>> ELSE m[i]]
    ELSE Append(m, <<k, v>>)

mapDelete(m, k) == SelectSeq(m, LAMBDA p : p[1] # k)

mapValues(m) == [i \in 1..Len(m) |-> m[i][2]]

RECURSIVE mapFrom(_)
\* new Map(pairs): a later pair with the same key replaces the value in place
mapFrom(pairs) ==
    IF pairs = << >> THEN << >>
    ELSE mapSet(mapFrom(SubSeq(pairs, 1, Len(pairs) - 1)),
                pairs[Len(pairs)][1], pairs[Len(pairs)][2])

RECURSIVE join(_, _)
\* Array.prototype.join over an array of strings
join(strs, sep) ==
    IF strs = << >> THEN << >>
    ELSE IF Len(strs) = 1 THEN strs[1]
    ELSE strs[1] \o sep \o join(Tail(strs), sep)

\* ------------------------------------------------- entity classes (examples)
\* Each class passes (simpleFields, infoAboutComplex) to the base constructor;
\* a factory (e) => new X(e) is represented by the class name X.
PublisherSchemaBuilder ==
    [simpleFields |-> <<"name", "address">>, infoAboutComplex |-> << >>]

BookSchemaBuilder ==
    [simpleFields |-> <<"title", "publisher">>,
     infoAboutComplex |-> << <<"publisher", "Publisher">> >>]

AuthorSchemaBuilder ==
    [simpleFields |-> <<"id", "name", "books">>,
     infoAboutComplex |-> << <<"books", "Book">> >>]

\* Registries a caller may declare besides the examples: one with no field at
\* all, one with a complex field only.
EmptySchemaBuilder == [simpleFields |-> << >>, infoAboutComplex |-> << >>]

ImprintSchemaBuilder ==
    [simpleFields |-> << >>,
     infoAboutComplex |-> << <<"publisher", "Publisher">> >>]

\* A registry with two simple and two complex fields.
LibrarySchemaBuilder ==
    [simpleFields |-> <<"name", "address">>,
     infoAboutComplex |-> << <<"books", "Book">>, <<"publisher", "Publisher">> >>]

Classes == {"Publisher", "Book", "Author", "Empty", "Imprint"}

Registry(class) ==
    CASE class = "Publisher" -> PublisherSchemaBuilder
      [] class = "Book" -> BookSchemaBuilder
      [] class = "Author" -> AuthorSchemaBuilder
      [] class = "Empty" -> EmptySchemaBuilder
      [] class = "Imprint" -> ImprintSchemaBuilder
      [] class = "Library" -> LibrarySchemaBuilder

\* ------------------------------------------------------------ SchemaBuilder
\* A node is [class, name, _simple, _complex, _originSimple, _originComplex];
\* _originComplex is [defined |-> FALSE] while the field is undefined.
RECURSIVE New(_, _, _)

RECURSIVE useSimpleOnly(_, _)

\* this._originComplex?.has(field)
originComplexHas(n, field) ==
    n._originComplex.defined /\ mapHas(n._originComplex.map, field)

\* this._originSimple?.has(field)
originSimpleHas(n, field) == setHas(n._originSimple, field)

\* a factory that also populates the child's own complex fields
builderInitDeep(class, e) == useSimpleOnly(New(class, e, << >>), TRUE)

\* the child factory registered in the examples: (e) => new X(e)
builderInit(class, e) == New(class, e, << >>)

\* only the simple selection is touched
removeSimpleOnly(n, field) == [n EXCEPT !._simple = setDelete(@, field)]

remove(n, field) ==
    [n EXCEPT !._complex = mapDelete(@, field), !._simple = setDelete(@, field)]

clear(n) == [n EXCEPT !._complex = << >>, !._simple = << >>]

\* Array.from(this._simple.values())
simpleFieldsOf(n) == [i \in 1..Len(n._simple) |-> <<n._simple[i]>>]

\* a live binding: the entry of a child the caller still holds is serialised
\* again from that child
complexFieldsLive(n) ==
    [i \in 1..Len(n._complex) |->
        LET k == n._complex[i][1]
            held == {s \in {"p", "c"} : ~isAbsent(nodes[s]) /\ nodes[s] # n
                                         /\ nodes[s].name = k}
        IN  IF held = {} THEN n._complex[i][2]
            ELSE LET h == nodes[CHOOSE s \in held : TRUE]
                     fs == [j \in 1..Len(h._simple) |-> <<h._simple[j]>>]
                           \o mapValues(h._complex)
                 IN  <<k, " ">> \o (IF Len(fs) > 0
                                    THEN <<"{">> \o join(fs, <<" ">>) \o <<"}">>
                                    ELSE << >>)]

\* Array.from(this._complex.values())
complexFieldsOf(n) == mapValues(n._complex)

\* complex strings placed before the simple names
buildComplexFirst(n, addEntryName) ==
    LET fields == complexFieldsOf(n) \o simpleFieldsOf(n)
    IN  (IF addEntryName THEN toStr(n.name) \o <<" ">> ELSE << >>)
        \o (IF Len(fields) > 0
            THEN <<"{">> \o join(fields, <<" ">>) \o <<"}">>
            ELSE << >>)

\* the braces are written whatever is selected
buildAlwaysBraces(n, addEntryName) ==
    (IF addEntryName THEN toStr(n.name) \o <<" ">> ELSE << >>)
    \o <<"{">> \o join(simpleFieldsOf(n) \o complexFieldsOf(n), <<" ">>) \o <<"}">>

build(n, addEntryName) ==
    LET fields == simpleFieldsOf(n) \o complexFieldsOf(n)
        fieldsSchema ==
            IF Len(fields) > 0
            THEN <<"{">> \o join(simpleFieldsOf(n) \o complexFieldsOf(n), <<" ">>)
                 \o <<"}">>
            ELSE << >>
    IN  (IF addEntryName THEN toStr(n.name) \o <<" ">> ELSE << >>) \o fieldsSchema

\* the registry is not consulted
addComplexUnchecked(n, complex) ==
    IF ~isAbsent(complex) /\ truthy(complex.name)
    THEN [n EXCEPT !._complex = mapSet(@, complex.name, build(complex, TRUE))]
    ELSE n

addComplex(n, complex) ==
    IF ~isAbsent(complex) /\ truthy(complex.name)
    THEN IF originComplexHas(n, complex.name)
         THEN [n EXCEPT !._complex = mapSet(@, complex.name, build(complex, TRUE))]
         ELSE n
    ELSE n

\* a child the caller already holds is handed out again
getComplexCached(n, field) ==
    LET held == {s \in {"p", "c"} : ~isAbsent(nodes[s]) /\ nodes[s] # n
                                     /\ nodes[s].name = field}
    IN  IF ~originComplexHas(n, field) THEN UndefinedNode
        ELSE IF held # {} THEN nodes[CHOOSE s \in held : TRUE]
        ELSE builderInit(mapGet(n._originComplex.map, field), field)

getComplex(n, field) ==
    IF originComplexHas(n, field)
    THEN builderInit(mapGet(n._originComplex.map, field), field)
    ELSE UndefinedNode

RECURSIVE attachDefaults(_, _)
\* forEach(e => this.addComplex(builderInit(e))) over <<field, class>> pairs;
\* an exception of a factory ends the loop and the calling method
attachDefaults(n, pairs) ==
    IF pairs = << >> THEN n
    ELSE LET child == builderInit(pairs[1][2], pairs[1][1])
         IN  IF isThrown(child) THEN Throw(child.thrown, n)
             ELSE attachDefaults(addComplex(n, child), Tail(pairs))

\* _complex is not cleared
useSimpleOnlyKeepComplex(n, complexWithSimple) ==
    LET n1 == [n EXCEPT !._simple = n._originSimple]
    IN  IF n._originComplex.defined /\ complexWithSimple
        THEN attachDefaults(n1, n._originComplex.map)
        ELSE n1

useSimpleOnly(n, complexWithSimple) ==
    LET n1 == [n EXCEPT !._simple = n._originSimple]
    IN  IF n._originComplex.defined
        THEN LET n2 == [n1 EXCEPT !._complex = << >>]
             IN  IF complexWithSimple
                 THEN attachDefaults(n2, n._originComplex.map)
                 ELSE n2
        ELSE n1

\* a complex field that is already selected is built again
groupComplexAlways(n, fields) ==
    SelectSeq(fields, LAMBDA f : originComplexHas(n, f))

\* the three groups of add's reduce, each in argument order
groupComplex(n, fields) ==
    SelectSeq(fields, LAMBDA f : originComplexHas(n, f) /\ ~mapHas(n._complex, f))

\* every name that is not a complex field counts as simple
groupSimpleAny(n, fields) ==
    SelectSeq(fields, LAMBDA f : ~originComplexHas(n, f))

groupSimple(n, fields) ==
    SelectSeq(fields, LAMBDA f : ~originComplexHas(n, f) /\ originSimpleHas(n, f))

RECURSIVE addAll(_, _)
\* forEach(e => this._simple.add(e))
addAll(s, es) == IF es = << >> THEN s ELSE addAll(setAdd(s, es[1]), Tail(es))

\* the UNDEFINED group is added with the simple fields
addUndefinedAsSimple(n, fields) ==
    LET cs == groupComplex(n, fields)
        n1 == attachDefaults(n, [i \in 1..Len(cs) |->
                                   <<cs[i], mapGet(n._originComplex.map, cs[i])>>])
    IN  IF isThrown(n1) THEN n1
        ELSE [n1 EXCEPT !._simple =
                 addAll(@, SelectSeq(fields, LAMBDA f : f \notin Range(cs)))]

add(n, fields) ==
    LET cs == groupComplex(n, fields)
        n1 == attachDefaults(n, [i \in 1..Len(cs) |->
                                   <<cs[i], mapGet(n._originComplex.map, cs[i])>>])
    IN  IF isThrown(n1) THEN n1
        ELSE [n1 EXCEPT !._simple = addAll(@, groupSimple(n, fields))]

\* the selection is not cleared first
setKeep(n, fields) == add(n, fields)

set(n, fields) == add(clear(n), fields)

\* new Map(infoAboutComplex...) when at least one pair is given
originComplexOf(infoAboutComplex) ==
    IF Len(infoAboutComplex) > 0
    THEN [defined |-> TRUE, map |-> mapFrom(infoAboutComplex)]
    ELSE [defined |-> FALSE, map |-> << >>]

\* the complex keys are not deleted
originSimpleRaw(simpleFields, originComplex) == setFrom(simpleFields)

\* new Set(simpleFields) minus every key of _originComplex
originSimpleOf(simpleFields, originComplex) ==
    IF originComplex.defined
    THEN SelectSeq(setFrom(simpleFields), LAMBDA f : ~mapHas(originComplex.map, f))
    ELSE setFrom(simpleFields)

\* this._originSimple?.size === 0 && this._originComplex?.size === 0
hasNoFields(originSimple, originComplex) ==
    Len(originSimple) = 0 /\ originComplex.defined /\ Len(originComplex.map) = 0

\* protected constructor, as called by a subclass `class`:
\* super(simpleFields, entryName, initFields, ...infoAboutComplex);
\* initFields << >> stands for an empty, null or undefined list
New(class, entryName, initFields) ==
    LET reg == Registry(class)
        originComplex == originComplexOf(reg.infoAboutComplex)
        originSimple == originSimpleOf(reg.simpleFields, originComplex)
        this == [class |-> class,
                 name |-> IF entryName = Undefined THEN "" ELSE entryName,
                 _simple |-> << >>,
                 _complex |-> << >>,
                 _originSimple |-> originSimple,
                 _originComplex |-> originComplex]
    IN  IF hasNoFields(originSimple, originComplex)
        THEN Throw("Schema does not include fields", this)
        ELSE IF Len(initFields) > 0
             THEN add(this, initFields)
             ELSE useSimpleOnly(this, FALSE)

\* ------------------------------------------------------- operation assembler
\* A script name is a sequence of letters; every other string keeps its
\* punctuation as one lexeme per character.
LowerCase == <<"a", "e", "g", "h", "o", "r", "t", "u">>

UpperCase == <<"A", "E", "G", "H", "O", "R", "T", "U">>

\* [A-Z]
isUpper(ch) == ch \in Range(UpperCase)

\* String.prototype.toUpperCase on one letter
toUpperCase(ch) ==
    IF ch \in Range(LowerCase)
    THEN UpperCase[CHOOSE i \in 1..Len(LowerCase) : LowerCase[i] = ch]
    ELSE ch

\* text.split(/(?=[A-Z])/).join('_'), then toUpperCase / toLowerCase: an
\* underscore goes before every capital that is not the first letter
camelToSnakeCase(text, toUpper) ==
    LET piece(i) == (IF i > 1 /\ isUpper(text[i]) THEN <<"_">> ELSE << >>)
                    \o <<IF toUpper THEN toUpperCase(text[i])
                         ELSE IF isUpper(text[i])
                              THEN LowerCase[CHOOSE k \in 1..Len(UpperCase) :
                                                UpperCase[k] = text[i]]
                              ELSE text[i]>>
    IN  join([i \in 1..Len(text) |-> piece(i)], << >>)

createOperationName(scriptName) == camelToSnakeCase(scriptName, TRUE)

\* paramsMapping?.map(([fName]) => `${fName}: $${fName}`).join(', ')
scriptArgs(paramsMapping) ==
    join([i \in 1..Len(paramsMapping) |->
             <<paramsMapping[i][1], ":", " ", "$", paramsMapping[i][1]>>],
         <<",", " ">>)

\* an empty type is printed as it is
preparedParamsRaw(paramsMapping) ==
    join([i \in 1..Len(paramsMapping) |->
             <<"$", paramsMapping[i][1], ":", " ", paramsMapping[i][2]>>],
         <<"\n">>)

\* paramsMapping?.map(([fName, fType]) => `$${fName}: ${fType || 'String!'}`)
\*     .join('\n')
preparedParamsOf(paramsMapping) ==
    join([i \in 1..Len(paramsMapping) |->
             <<"$", paramsMapping[i][1], ":", " ",
               IF paramsMapping[i][2] = "" THEN "String!" ELSE paramsMapping[i][2]>>],
         <<"\n">>)

\* typeof resultSchema === 'string'
isString(resultSchema) == "literal" \in DOMAIN resultSchema

\* the node is serialised with its name
resultSchemaStringNamed(resultSchema) ==
    IF ~isAbsent(resultSchema)
    THEN IF isString(resultSchema) THEN resultSchema.literal
         ELSE build(resultSchema, TRUE)
    ELSE <<"null">>

\* the right operand of the + in the schema expression; + null appends "null"
resultSchemaString(resultSchema) ==
    IF ~isAbsent(resultSchema)
    THEN IF isString(resultSchema) THEN resultSchema.literal
         ELSE build(resultSchema, FALSE)
    ELSE <<"null">>

\* static createScript(scriptType, name, resultSchema, ...paramsMapping);
\* the || '' of the schema expression applies to the whole sum
createScript(scriptType, name, resultSchema, paramsMapping) ==
    LET args == scriptArgs(paramsMapping)
        sum == (IF Len(args) > 0 THEN <<"(">> \o args \o <<")">> ELSE << >>)
               \o resultSchemaString(resultSchema)
        schema == IF Len(sum) > 0 THEN sum ELSE << >>
        operationName == <<scriptType, " ">> \o createOperationName(name)
        preparedParams == preparedParamsOf(paramsMapping)
        params == IF Len(preparedParams) > 0
                  THEN <<"(">> \o preparedParams \o <<")">>
                  ELSE << >>
    IN  operationName \o <<" ">> \o params \o <<" ", "{", " ">> \o name
        \o <<" ">> \o schema \o <<" ", "}">>

\* ------------------------------------------------------------ state machine
\* The caller holds two references: p (a root node) and c (a child it got from
\* getComplex, customises and attaches).  last records the most recent call.
Slots == {"p", "c"}

\* entity names a caller passes to the constructor of a root node
EntryNames == {Undefined, Null, "author"}

\* argument lists of at most k names
SeqsUpTo(S, k) == UNION {[1..m -> S] : m \in 0..k}

\* the names worth passing to a node of a class: its raw simple names, its
\* complex names and one name no registry knows
ArgNames(class) ==
    Range(Registry(class).simpleFields)
    \cup {Registry(class).infoAboutComplex[i][1] :
              i \in 1..Len(Registry(class).infoAboutComplex)}
    \cup {"doesNotExist"}

ArgLists(class) == SeqsUpTo(ArgNames(class), MaxFields)

exists(s) == ~isAbsent(nodes[s])

\* the arguments tried on the node in slot s
ArgNamesOf(s) == IF exists(s) THEN ArgNames(nodes[s].class) ELSE {}

ArgListsOf(s) == SeqsUpTo(ArgNamesOf(s), MaxFields)

\* the nodes a caller constructs on the spot to hand to addComplex of the node
\* in slot s: new X(name, ...initFields) with at most one initial field
ChildClasses == {"Book", "Publisher"}

FreshChildren(s) ==
    {New(class, nm, fs) : <<class, nm, fs>> \in
        UNION {{class} \X (ArgNamesOf(s) \cup {Undefined, Null})
                       \X SeqsUpTo(ArgNames(class), 1) : class \in ChildClasses}}

\* again: this build repeats the call before it (same node, same flag)
Call(op, s, fields, flag, arg, out, thrown) ==
    [op |-> op, slot |-> s, fields |-> fields, flag |-> flag, arg |-> arg,
     out |-> out, thrown |-> thrown, again |-> FALSE]

\* the effect of a method call on the node in slot s with outcome r
Effect(s, r, rec) ==
    /\ nodes' = [nodes EXCEPT ![s] = IF isThrown(r) THEN r.this ELSE r]
    /\ last' = [rec EXCEPT !.thrown = isThrown(r)]

Init ==
    /\ nodes = [s \in Slots |-> NoNode]
    /\ last = Call("none", "p", << >>, FALSE, NoNode, << >>, FALSE)

Construct(s, class, entryName, initFields) ==
    /\ ~exists(s)
    /\ LET r == New(class, entryName, initFields)
       IN  /\ nodes' = [nodes EXCEPT ![s] = IF isThrown(r) THEN NoNode ELSE r]
           /\ last' = Call("new", s, initFields, FALSE,
                           [absent |-> "none", class |-> class], << >>, isThrown(r))

Remove(s, field) ==
    /\ exists(s)
    /\ Effect(s, remove(nodes[s], field),
              Call("remove", s, <<field>>, FALSE, NoNode, << >>, FALSE))

Clear(s) ==
    /\ exists(s)
    /\ Effect(s, clear(nodes[s]),
              Call("clear", s, << >>, FALSE, NoNode, << >>, FALSE))

AddComplex(s, complex) ==
    /\ exists(s)
    /\ Effect(s, addComplex(nodes[s], complex),
              Call("addComplex", s, << >>, FALSE, complex, << >>, FALSE))

\* t = s.getComplex(field): the caller keeps what is returned in t
GetComplex(s, t, field) ==
    /\ exists(s)
    /\ t # s
    /\ LET r == getComplex(nodes[s], field)
       IN  /\ nodes' = [nodes EXCEPT ![t] = IF isAbsent(r) \/ isThrown(r)
                                            THEN NoNode ELSE r]
           /\ last' = Call("getComplex", s, <<field>>, FALSE,
                           IF isThrown(r) THEN NoNode ELSE r, << >>, isThrown(r))

UseSimpleOnly(s, complexWithSimple) ==
    /\ exists(s)
    /\ Effect(s, useSimpleOnly(nodes[s], complexWithSimple),
              Call("useSimpleOnly", s, << >>, complexWithSimple, NoNode, << >>, FALSE))

Add(s, fields) ==
    /\ exists(s)
    /\ Effect(s, add(nodes[s], fields),
              Call("add", s, fields, FALSE, NoNode, << >>, FALSE))

Set(s, fields) ==
    /\ exists(s)
    /\ Effect(s, set(nodes[s], fields),
              Call("set", s, fields, FALSE, NoNode, << >>, FALSE))

\* a build that consumes the complex entries it serialises
BuildConsuming(s, addEntryName) ==
    /\ exists(s)
    /\ nodes' = [nodes EXCEPT ![s]._complex = << >>]
    /\ last' = [Call("build", s, << >>, addEntryName, NoNode,
                     build(nodes[s], addEntryName), FALSE)
                EXCEPT !.again = last.op = "build" /\ last.slot = s
                                 /\ last.flag = addEntryName]

Build(s, addEntryName) ==
    /\ exists(s)
    /\ nodes' = nodes
    /\ last' = [Call("build", s, << >>, addEntryName, NoNode,
                     build(nodes[s], addEntryName), FALSE)
                EXCEPT !.again = last.op = "build" /\ last.slot = s
                                 /\ last.flag = addEntryName]

\* one root node, children constructed on the spot
Next ==
    \/ \E class \in Classes, nm \in EntryNames :
          \E fs \in ArgLists(class) : Construct("p", class, nm, fs)
    \/ \E f \in ArgNamesOf("p") : Remove("p", f)
    \/ Clear("p")
    \/ \E a \in FreshChildren("p") \cup {NullNode, UndefinedNode} : AddComplex("p", a)
    \/ \E b \in BOOLEAN : UseSimpleOnly("p", b)
    \/ \E fs \in ArgListsOf("p") : Add("p", fs)
    \/ \E fs \in ArgListsOf("p") : Set("p", fs)
    \/ \E b \in BOOLEAN : Build("p", b)

Spec == Init /\ [][Next]_vars

\* a root node of an example class and a child obtained from getComplex, each
\* called with one field at a time
TreeClasses == {"Author", "Book"}

NextTree ==
    \/ \E class \in TreeClasses : Construct("p", class, "author", << >>)
    \/ \E f \in ArgNamesOf("p") : GetComplex("p", "c", f)
    \/ \E s \in Slots : \E f \in ArgNamesOf(s) : Remove(s, f)
    \/ \E s \in Slots : Clear(s)
    \/ \E s \in Slots, t \in Slots : AddComplex(s, nodes[t])
    \/ \E s \in Slots, b \in BOOLEAN : UseSimpleOnly(s, b)
    \/ \E s \in Slots : \E f \in ArgNamesOf(s) : Add(s, <<f>>)
    \/ \E s \in Slots : \E f \in ArgNamesOf(s) : Set(s, <<f>>)
    \/ \E s \in Slots, b \in BOOLEAN : Build(s, b)

SpecTree == Init /\ [][NextTree]_vars

\* calls of the static createScript; the nodes passed as resultSchema are
\* constructed on the spot
MaxParams == 2

ScriptTypes == {"query", "mutation"}

ScriptNames ==
    {<<"g", "e", "t", "A", "u", "t", "h", "o", "r">>, <<"A", "u", "t", "h", "o", "r">>}

\* <<variable name, GraphQL type>>; "" is an empty or absent type
ParamPairs == {"id", "name"} \X {"", "Int"}

ParamLists == SeqsUpTo(ParamPairs, MaxParams)

ResultSchemas ==
    {New("Author", "author", <<"id", "name">>),
     clear(New("Author", "author", << >>)),
     New("Author", Undefined, <<"id", "books">>),
     NullNode, UndefinedNode,
     [literal |-> <<"{", "id", "}">>],
     [literal |-> << >>]}

CreateScript(scriptType, name, resultSchema, paramsMapping) ==
    /\ nodes' = nodes
    /\ last' = [op |-> "createScript", slot |-> "p", fields |-> paramsMapping,
                flag |-> FALSE, arg |-> resultSchema,
                out |-> createScript(scriptType, name, resultSchema, paramsMapping),
                thrown |-> FALSE, again |-> FALSE,
                scriptType |-> scriptType, name |-> name]

\* createScript is static and reads no state: one call from the initial state
\* for every choice of arguments
NextScript ==
    /\ last.op = "none"
    /\ \E scriptType \in ScriptTypes, name \in ScriptNames, rs \in ResultSchemas :
          \E pm \in ParamLists : CreateScript(scriptType, name, rs, pm)

SpecScript == Init /\ [][NextScript]_vars

\* a root node with two complex fields, or a publisher; the children handed
\* to addComplex are a default and a customised node for each complex field
OrderChildren ==
    {New("Book", "books", << >>), New("Book", "books", <<"publisher">>),
     New("Publisher", "publisher", << >>),
     New("Publisher", "publisher", <<"address">>)}

NextOrder ==
    \/ \E fs \in ArgLists("Library") : Construct("p", "Library", "library", fs)
    \/ Construct("p", "Publisher", "publisher", << >>)
    \/ \E f \in ArgNamesOf("p") : Remove("p", f)
    \/ Clear("p")
    \/ \E a \in OrderChildren : AddComplex("p", a)
    \/ \E b \in BOOLEAN : UseSimpleOnly("p", b)
    \/ \E fs \in ArgListsOf("p") : Add("p", fs)
    \/ \E b \in BOOLEAN : Build("p", b)

SpecOrder == Init /\ [][NextOrder]_vars

\* ------------------------------------------------------------------ claims
\* what a registry declares, read off the class definitions
ComplexNames(class) ==
    {Registry(class).infoAboutComplex[i][1] :
        i \in 1..Len(Registry(class).infoAboutComplex)}

DeclaredSimple(class) ==
    SelectSeq(Registry(class).simpleFields, LAMBDA f : f \notin ComplexNames(class))

Braced(names) ==
    IF Len(names) = 0 THEN << >>
    ELSE <<"{">> \o join([i \in 1..Len(names) |-> <<names[i]>>], <<" ">>) \o <<"}">>

\* the string of a child named f of a class that selects its declared simple
\* fields and nothing else
DefaultString(f, class) == <<f, " ">> \o Braced(DeclaredSimple(class))

RECURSIVE TopNames(_, _)
\* the names at brace depth 1 of a built string, left to right
TopNames(str, depth) ==
    IF str = << >> THEN << >>
    ELSE IF str[1] = "{" THEN TopNames(Tail(str), depth + 1)
    ELSE IF str[1] = "}" THEN TopNames(Tail(str), depth - 1)
    ELSE IF str[1] = " " \/ depth # 1 THEN TopNames(Tail(str), depth)
    ELSE <<str[1]>> \o TopNames(Tail(str), depth)

Mutators == {"add", "remove", "set", "clear", "addComplex", "useSimpleOnly"}

called == nodes[last.slot]

\* C1: constructing a node throws exactly when its registry declares no simple
\* and no complex field
C1_ConstructionGuard ==
    last.op = "new" =>
        (last.thrown <=> (Len(Registry(last.arg.class).simpleFields) = 0
                          /\ Len(Registry(last.arg.class).infoAboutComplex) = 0))

\* C2: once a child is attached to the parent, no mutation of the child changes
\* what the parent builds
C2_SnapshotAttachment ==
    [][(exists("p") /\ exists("c") /\ last'.slot = "c" /\ last'.op \in Mutators)
        => /\ build(nodes["p"], TRUE)' = build(nodes["p"], TRUE)
           /\ build(nodes["p"], FALSE)' = build(nodes["p"], FALSE)]_vars

\* a customised child was attached to the parent and then changed
C2_Witness ==
    /\ exists("p") /\ exists("c")
    /\ last.slot = "c" /\ last.op \in Mutators
    /\ mapHas(nodes["p"]._complex, nodes["c"].name)
    /\ mapGet(nodes["p"]._complex, nodes["c"].name)
           # DefaultString(nodes["c"].name, nodes["c"].class)
    /\ mapGet(nodes["p"]._complex, nodes["c"].name) # build(nodes["c"], TRUE)

\* C3: inside the braces of a built string every selected simple field comes
\* before every selected complex field
C3_SimpleBeforeComplex ==
    (last.op = "build" /\ exists(last.slot)) =>
        LET t == TopNames(last.out, 0)
        IN  /\ Range(t) = Range(called._simple) \cup Range(mapKeys(called._complex))
            /\ \A i, j \in 1..Len(t) :
                  (i < j /\ mapHas(called._complex, t[i]))
                      => ~setHas(called._simple, t[j])

\* a node with two simple fields and a complex field selected was built
C3_Witness ==
    /\ last.op = "build" /\ exists(last.slot)
    /\ Len(called._simple) = 2
    /\ Len(called._complex) = 1

\* C4: a name declared both as simple and as complex is never selected as a
\* simple field and is never built as a leaf
C4_ComplexPrecedence ==
    \A s \in Slots : exists(s) =>
        \A f \in Range(Registry(nodes[s].class).simpleFields)
                    \cap ComplexNames(nodes[s].class) :
            /\ ~setHas(nodes[s]._simple, f)
            /\ (last.op = "build" /\ last.slot = s /\ f \in Range(TopNames(last.out, 0)))
                   => mapHas(nodes[s]._complex, f)

\* a name declared both ways was requested from a node
C4_Witness ==
    /\ last.op \in {"new", "add", "set"} /\ exists(last.slot)
    /\ \E f \in Range(last.fields) :
          f \in Range(Registry(called.class).simpleFields) \cap ComplexNames(called.class)

\* C5: only registered names are ever selected
C5_SelectionRegistered ==
    \A s \in Slots : exists(s) =>
        /\ Range(nodes[s]._simple) \subseteq Range(nodes[s]._originSimple)
        /\ Range(mapKeys(nodes[s]._complex))
              \subseteq Range(mapKeys(nodes[s]._originComplex.map))
        /\ Range(nodes[s]._simple) \subseteq Range(DeclaredSimple(nodes[s].class))
        /\ Range(mapKeys(nodes[s]._complex)) \subseteq ComplexNames(nodes[s].class)

\* an unregistered name was passed to add or set
C5_Witness ==
    /\ last.op \in {"add", "set"} /\ exists(last.slot)
    /\ "doesNotExist" \in Range(last.fields)

\* C6: build changes no node, and a build that repeats the build before it
\* returns the same string
C6_BuildReadOnly ==
    [][last'.op = "build" =>
          /\ nodes' = nodes
          /\ last'.again => last'.out = last.out]_vars

\* a node with a selection was built twice in a row
C6_Witness ==
    /\ last.op = "build" /\ last.again /\ exists(last.slot)
    /\ Len(called._simple) > 0 /\ Len(called._complex) > 0

\* C7: after construction without initial fields and after useSimpleOnly(false)
\* the node selects its simple fields and no complex field
C7_DefaultPopulation ==
    (/\ exists(last.slot)
     /\ \/ last.op = "new" /\ last.fields = << >>
        \/ last.op = "useSimpleOnly" /\ ~last.flag)
    => /\ called._simple = called._originSimple
       /\ called._simple = DeclaredSimple(called.class)
       /\ called._complex = << >>

\* useSimpleOnly(false) was called on a node that declares both kinds of field
C7_Witness ==
    /\ last.op = "useSimpleOnly" /\ ~last.flag /\ exists(last.slot)
    /\ Len(called._originSimple) > 0
    /\ called._originComplex.defined

\* C8: after useSimpleOnly(true) the node selects its simple fields and, for
\* every registered complex field, the string of a child with its own simple
\* fields only
C8_RecursiveDefault ==
    (last.op = "useSimpleOnly" /\ last.flag /\ exists(last.slot))
    => /\ called._simple = called._originSimple
       /\ called._complex =
             [i \in 1..Len(Registry(called.class).infoAboutComplex) |->
                 <<Registry(called.class).infoAboutComplex[i][1],
                   DefaultString(Registry(called.class).infoAboutComplex[i][1],
                                 Registry(called.class).infoAboutComplex[i][2])>>]

\* useSimpleOnly(true) was called on a node whose child has a complex field
C8_Witness ==
    /\ last.op = "useSimpleOnly" /\ last.flag /\ exists(last.slot)
    /\ called.class = "Author"
    /\ Len(called._complex) = 1

\* C9: add raises nothing, ignores unregistered names, and does with a mixed
\* list what it does with the registered names of the list
C9_UnknownFieldsIgnored ==
    [][last'.op = "add" =>
          LET s == last'.slot
              reg == SelectSeq(last'.fields, LAMBDA f :
                         originSimpleHas(nodes[s], f) \/ originComplexHas(nodes[s], f))
          IN  /\ ~last'.thrown
              /\ nodes'[s] = add(nodes[s], reg)
              /\ reg = << >> => nodes' = nodes]_vars

\* add was called with a registered and an unregistered name
C9_Witness ==
    /\ last.op = "add" /\ exists(last.slot)
    /\ "doesNotExist" \in Range(last.fields)
    /\ \E f \in Range(last.fields) : setHas(called._simple, f)

\* C10: addComplex with an absent child, a child without a name or a child
\* whose name is not a registered complex field raises nothing and changes
\* nothing
C10_AddComplexInvalid ==
    [][(/\ last'.op = "addComplex"
        /\ \/ isAbsent(last'.arg)
           \/ ~truthy(last'.arg.name)
           \/ last'.arg.name \notin ComplexNames(nodes[last'.slot].class))
       => nodes' = nodes /\ ~last'.thrown]_vars

\* addComplex was given a child named after a registered simple field
C10_Witness ==
    /\ last.op = "addComplex" /\ exists(last.slot)
    /\ ~isAbsent(last.arg)
    /\ setHas(called._originSimple, last.arg.name)

\* the class a registry names for the child of a complex field
ChildClass(class, f) ==
    LET info == Registry(class).infoAboutComplex
    IN  info[CHOOSE i \in 1..Len(info) : info[i][1] = f][2]

\* C11: getComplex leaves the parent and what it builds unchanged, returns a
\* new child with its default selection for a registered complex field,
\* whatever was done to a child returned before, and returns nothing otherwise
C11_GetComplexFresh ==
    [][last'.op = "getComplex" =>
          LET f == last'.fields[1]
              class == nodes["p"].class
          IN  /\ nodes'["p"] = nodes["p"]
              /\ build(nodes["p"], TRUE)' = build(nodes["p"], TRUE)
              /\ build(nodes["p"], FALSE)' = build(nodes["p"], FALSE)
              /\ IF f \in ComplexNames(class)
                 THEN /\ nodes'["c"] = last'.arg
                      /\ last'.arg.name = f
                      /\ last'.arg.class = ChildClass(class, f)
                      /\ last'.arg._simple = DeclaredSimple(ChildClass(class, f))
                      /\ last'.arg._complex = << >>
                 ELSE last'.arg = UndefinedNode /\ ~exists("c")']_vars

\* a child was customised and attached, and getComplex was called again
C11_Witness ==
    /\ last.op = "getComplex" /\ exists("p") /\ exists("c")
    /\ mapHas(nodes["p"]._complex, nodes["c"].name)
    /\ mapGet(nodes["p"]._complex, nodes["c"].name)
           # DefaultString(nodes["c"].name, nodes["c"].class)

GetAuthor == <<"g", "e", "t", "A", "u", "t", "h", "o", "r">>

\* createScript("query", "getAuthor", N) was called with N an author node that
\* selects id and name, and no parameter
C12_Case ==
    /\ last.op = "createScript"
    /\ last.scriptType = "query" /\ last.name = GetAuthor
    /\ last.fields = << >>
    /\ ~isAbsent(last.arg) /\ ~isString(last.arg)
    /\ last.arg.name = "author"
    /\ last.arg._simple = <<"id", "name">> /\ last.arg._complex = << >>

\* C12 as stated: the call returns
\* "query GET_AUTHOR  { getAuthor  author {id name} }"
C12_AsStated ==
    C12_Case =>
        last.out = <<"query", " ", "G", "E", "T", "_", "A", "U", "T", "H", "O", "R",
                     " ", " ", "{", " "
                   >> \o GetAuthor \o
                   <<" ", " ", "author", " ", "{", "id", " ", "name", "}", " ", "}">>

\* C12: the call returns "query GET_AUTHOR  { getAuthor {id name} }": no
\* parenthetical, and the selection without the node's name
C12_QueryExample ==
    C12_Case =>
        last.out = <<"query", " ", "G", "E", "T", "_", "A", "U", "T", "H", "O", "R",
                     " ", " ", "{", " "
                   >> \o GetAuthor \o
                   <<" ", "{", "id", " ", "name", "}", " ", "}">>

C12_Witness == C12_Case /\ Len(last.out) > 0

IsPrefix(a, b) == Len(a) <= Len(b) /\ SubSeq(b, 1, Len(a)) = a

\* the document up to the end of the inner arguments, with the declarations
\* "$name: type" separated by sep and the arguments "name: $name" by ", "
ExpectedHead(call, sep) ==
    LET pm == call.fields
        decls == join([i \in 1..Len(pm) |->
                          <<"$", pm[i][1], ":", " ",
                            IF pm[i][2] = "" THEN "String!" ELSE pm[i][2]>>], sep)
        args == join([i \in 1..Len(pm) |-> <<pm[i][1], ":", " ", "$", pm[i][1]>>],
                     <<",", " ">>)
    IN  <<call.scriptType, " ">> \o createOperationName(call.name)
        \o <<" ", "(">> \o decls \o <<")", " ", "{", " ">> \o call.name
        \o <<" ", "(">> \o args \o <<")">>

C14_NamePrefix ==
    (last.op = "build" /\ exists(last.slot)) =>
        IF last.flag
        THEN last.out = (IF truthy(called.name) THEN <<called.name>> ELSE << >>)
                        \o <<" ">> \o build(called, FALSE)
        ELSE last.out = << >> \/ last.out[1] = "{"

\* C15: a built string has a brace block exactly when a field is selected;
\* with nothing selected build(false) is the empty string and build(true) the
\* name as printed and its space
C15_BracesIffSelected ==
    (last.op = "build" /\ exists(last.slot)) =>
        LET selected == Len(called._simple) + Len(called._complex) > 0
        IN  /\ ("{" \in Range(last.out)) <=> selected
            /\ ("}" \in Range(last.out)) <=> selected
            /\ (~selected /\ ~last.flag) => last.out = << >>
            /\ (~selected /\ last.flag) =>
                  /\ Len(last.out) <= 2
                  /\ last.out[Len(last.out)] = " "
                  /\ truthy(called.name) => last.out = <<called.name, " ">>

\* a node with fields to select but nothing selected was built with its name
C15_Witness ==
    /\ last.op = "build" /\ last.flag /\ exists(last.slot)
    /\ called.name = "author"
    /\ Len(called._originSimple) > 0
    /\ Len(called._simple) = 0 /\ Len(called._complex) = 0

\* C16: add keeps the string of every complex field that is already selected,
\* also when the field is among its arguments, and stores the string of a
\* default child for a requested complex field that is not selected
C16_AddKeepsComplex ==
    [][last'.op = "add" =>
          LET s == last'.slot
              class == nodes[s].class
          IN  /\ \A k \in Range(mapKeys(nodes[s]._complex)) :
                    /\ mapHas(nodes'[s]._complex, k)
                    /\ mapGet(nodes'[s]._complex, k) = mapGet(nodes[s]._complex, k)
              /\ \A f \in Range(last'.fields) \cap ComplexNames(class) :
                    ~mapHas(nodes[s]._complex, f) =>
                        /\ mapHas(nodes'[s]._complex, f)
                        /\ mapGet(nodes'[s]._complex, f)
                              = DefaultString(f, ChildClass(class, f))]_vars

\* add was called with a complex field whose customised string is still stored
C16_Witness ==
    /\ last.op = "add" /\ exists(last.slot)
    /\ \E f \in Range(last.fields) :
          /\ mapHas(called._complex, f)
          /\ mapGet(called._complex, f) # DefaultString(f, ChildClass(called.class, f))

\* C17: set(F) leaves what clear() followed by add(F) leaves, which F and the
\* registry determine: the simple names of F, the complex names of F, each in
\* the order of F, and for every complex field the string of a default child
C17_SetIsClearThenAdd ==
    [][last'.op = "set" =>
          LET s == last'.slot
              F == last'.fields
              n == nodes[s]
              names == setFrom(F)
          IN  /\ nodes'[s]._simple =
                    SelectSeq(names, LAMBDA f : setHas(n._originSimple, f))
              /\ mapKeys(nodes'[s]._complex) =
                    SelectSeq(names, LAMBDA f : originComplexHas(n, f))
              /\ \A i \in 1..Len(nodes'[s]._complex) :
                    nodes'[s]._complex[i][2] =
                        DefaultString(nodes'[s]._complex[i][1],
                                      ChildClass(n.class, nodes'[s]._complex[i][1]))]_vars

\* set was called with a complex field and without one of the simple fields
C17_Witness ==
    /\ last.op = "set" /\ exists(last.slot)
    /\ \E f \in Range(last.fields) : mapHas(called._complex, f)
    /\ Len(called._simple) < Len(called._originSimple)

\* C18: remove(f) raises nothing and takes f, and nothing else, out of both
\* selections, the rest keeping its strings and its order; when f is not
\* selected nothing changes, so a second remove(f) changes nothing
C18_RemoveOnlyThat ==
    [][last'.op = "remove" =>
          LET s == last'.slot
              f == last'.fields[1]
          IN  /\ ~last'.thrown
              /\ nodes'[s]._simple = SelectSeq(nodes[s]._simple, LAMBDA x : x # f)
              /\ nodes'[s]._complex = SelectSeq(nodes[s]._complex, LAMBDA e : e[1] # f)
              /\ nodes'[s] = [nodes[s] EXCEPT !._simple = nodes'[s]._simple,
                                             !._complex = nodes'[s]._complex]
              /\ \A t \in Slots \ {s} : nodes'[t] = nodes[t]
              /\ (~setHas(nodes[s]._simple, f) /\ ~mapHas(nodes[s]._complex, f))
                    => nodes' = nodes
              /\ remove(nodes'[s], f) = nodes'[s]]_vars

\* a registered field was removed from a node that still selects other fields
C18_Witness ==
    /\ last.op = "remove" /\ exists(last.slot)
    /\ originComplexHas(called, last.fields[1])
    /\ Len(called._simple) > 0
    /\ Len(called._complex) = 0

\* the document up to the place of the result selection: both parentheticals
\* are left out when there is no parameter
ExpectedFront(call) ==
    IF Len(call.fields) > 0 THEN ExpectedHead(call, <<"\n">>)
    ELSE <<call.scriptType, " ">> \o createOperationName(call.name)
         \o <<" ", " ", "{", " ">> \o call.name \o <<" ">>

\* C19: after the arguments the document has the literal string as it is, or
\* build(false) of the node, or nothing when resultSchema is null or undefined
C19_ResultSchemaResolved ==
    last.op = "createScript" =>
        last.out = ExpectedFront(last)
                   \o (IF isAbsent(last.arg) THEN << >>
                       ELSE IF isString(last.arg) THEN last.arg.literal
                       ELSE build(last.arg, FALSE))
                   \o <<" ", "}">>

\* the names of a list that satisfy ok and are not yet in have, each once, in
\* the order of their first occurrence
FirstNew(fields, have, ok) ==
    SelectSeq(setFrom(fields), LAMBDA f : f \in ok /\ ~setHas(have, f))

\* C20: tokens are listed in first-insertion order. add appends the names that
\* are not yet selected after the selected ones, in argument order, and leaves
\* the selected ones where they are; addComplex of a selected field replaces
\* its string in place and of an unselected one appends it; remove takes the
\* field out and keeps the order of the rest, so adding it again puts it last;
\* useSimpleOnly selects the simple fields in registration order; build lists
\* the simple fields and then the complex strings, each in selection order,
\* and a default publisher builds "publisher {name address}"
C20_InsertionOrder ==
    [][LET n == nodes["p"]
           m == nodes'["p"]
           F == last'.fields
           a == last'.arg
       IN  /\ (last'.op = "add" /\ Len(F) > 0 /\ ~last'.thrown) =>
                  /\ m._simple = n._simple
                        \o FirstNew(F, n._simple, Range(DeclaredSimple(n.class)))
                  /\ mapKeys(m._complex) = mapKeys(n._complex)
                        \o FirstNew(F, mapKeys(n._complex), ComplexNames(n.class))
           /\ (last'.op = "addComplex" /\ a.name \in ComplexNames(n.class)) =>
                  /\ m._simple = n._simple
                  /\ mapKeys(m._complex) =
                        IF mapHas(n._complex, a.name) THEN mapKeys(n._complex)
                        ELSE Append(mapKeys(n._complex), a.name)
                  /\ mapGet(m._complex, a.name) = build(a, TRUE)
                  /\ \A i \in 1..Len(n._complex) :
                        n._complex[i][1] # a.name => m._complex[i] = n._complex[i]
           /\ last'.op = "remove" =>
                  /\ m._simple = SelectSeq(n._simple, LAMBDA f : f # F[1])
                  /\ m._complex = SelectSeq(n._complex, LAMBDA e : e[1] # F[1])
           /\ last'.op = "useSimpleOnly" =>
                  m._simple = DeclaredSimple(n.class)
           /\ last'.op = "build" =>
                  /\ TopNames(last'.out, 0) = n._simple \o mapKeys(n._complex)
                  /\ (last'.flag /\ n.class = "Publisher"
                        /\ last.op \in {"new", "useSimpleOnly"}) =>
                        last'.out = <<"publisher", " ", "{", "name", " ",
                                      "address", "}">>]_vars

\* books was selected before publisher, is attached again with a customised
\* child and is still listed first
C20_Witness ==
    /\ last.op = "addComplex"
    /\ ~last.thrown
    /\ mapKeys(nodes["p"]._complex) = <<"books", "publisher">>
    /\ last.arg.name = "books"
    /\ mapGet(nodes["p"]._complex, "books") = build(last.arg, TRUE)
    /\ build(last.arg, TRUE) # DefaultString("books", "Book")
    /\ Len(nodes["p"]._simple) = 2

====
